---- MODULE Spec2Model ----
(***************************************************************************)
(* Managed external process lifecycle of ai_diffusion/util.py:             *)
(* create_process (environment sanitising, platform spawn arguments,      *)
(* stream wiring, job attachment on Windows) and LongPathZipFile.          *)
(***************************************************************************)
EXTENDS Integers, Sequences, FiniteSets, TLC

\* ---------------------------------------------------------------- bounds
MaxCalls == 2          \* concurrent create_process coroutines
MaxLen == 4            \* longest target path handed to _extract_member

Calls == 1..MaxCalls
Pids == 1..MaxCalls

\* ------------------------------------------------------- character strings
\* Strings the code slices or prefix-tests are sequences of characters.
StartsWith(s, pre) ==
    /\ Len(s) >= Len(pre)
    /\ SubSeq(s, 1, Len(pre)) = pre

\* Python s[n:]
Drop(s, n) == SubSeq(s, n + 1, Len(s))

\* ------------------------------------------------------------- platforms
\* Values of sys.platform.
Win32 == <<"w", "i", "n", "3", "2">>
Darwin == <<"d", "a", "r", "w", "i", "n">>
Linux == <<"l", "i", "n", "u", "x">>
FreeBSD == <<"f", "r", "e", "e", "b", "s", "d">>
Platforms == {Win32, Darwin, Linux, FreeBSD}

VARIABLES
    platform,        \* sys.platform of the host
    has_libc6,       \* whether ctypes.CDLL("libc.so.6") can load on the host
    environ,         \* os.environ of the host process
    pc,              \* position of each create_process coroutine
    running,         \* coroutine executing synchronous code (0: event loop idle)
    additional_env,  \* argument: {} for None, {m} for a dict m
    pipe_stderr,     \* argument
    kwargs,          \* keyword arguments given to create_subprocess_exec
    env,             \* env= given to create_subprocess_exec
    attempts,        \* spawn requests issued by each call
    child,           \* the OS process created for each call
    result,          \* what each call handed to its caller
    attach_calls,    \* pids win32.attach_process_to_job was called with
    job,             \* process-wide job object handle (0: not created)
    jobs_created,    \* job objects created so far
    job_members,     \* pids assigned to the job object
    log,             \* pids whose attachment failure was logged
    cwd,             \* current directory used by os.path.abspath
    zip_target,      \* targetpath the caller of _extract_member passes
    zip_written,     \* targetpath handed to zipfile.ZipFile._extract_member
    zip_done         \* whether an entry was extracted

vars == <<platform, has_libc6, environ, pc, running, additional_env, pipe_stderr,
          kwargs, env, attempts, child, result, attach_calls, job, jobs_created,
          job_members, log, cwd, zip_target, zip_written, zip_done>>

launch_vars == <<pc, running, additional_env, pipe_stderr, kwargs, env, attempts,
                 child, result, attach_calls, job, jobs_created, job_members, log>>

zip_vars == <<zip_target, zip_written, zip_done>>

\* util.py lines 18-20
is_windows == StartsWith(platform, <<"w", "i", "n">>)
is_macos == platform = Darwin
is_linux == ~is_windows /\ ~is_macos

\* Lines 151-158 run at import: on an is_linux host the module loads only if
\* libc.so.6 does; otherwise the import raises and nothing below exists.
module_loaded == is_linux => has_libc6

\* ------------------------------------------------------------ environment
Keys == {"PYTHONPATH", "MODE"}
Values == {"/host/libs", "prod"}
\* dicts with string keys: functions over a subset of Keys
Dicts == UNION {[D -> Values] : D \in SUBSET Keys}
EmptyDict == <<>>
\* Optional[dict]: {} is None
OptDicts == {{}} \cup {{m} : m \in Dicts}

\* dict.update
update(d, m) ==
    [k \in DOMAIN d \cup DOMAIN m |-> IF k \in DOMAIN m THEN m[k] ELSE d[k]]

\* del d[key]
del(d, key) == [k \in DOMAIN d \ {key} |-> d[k]]

\* `if additional_env:` is false for None and for an empty dict
truthy(opt) == \E m \in opt : DOMAIN m # {}

\* lines 174-178 with the deletion of PYTHONPATH left out
sanitized_env_keep(base, opt) ==
    IF truthy(opt) THEN update(base, CHOOSE m \in opt : TRUE) ELSE base

\* lines 174-178 with the host's value winning on a collision
sanitized_env_base_wins(base, opt) ==
    LET merged == IF truthy(opt) THEN update(CHOOSE m \in opt : TRUE, base) ELSE base
    IN  IF "PYTHONPATH" \in DOMAIN merged THEN del(merged, "PYTHONPATH") ELSE merged

\* lines 174-178: env = os.environ.copy(); update; del env["PYTHONPATH"]
sanitized_env(base, opt) ==
    LET merged == IF truthy(opt) THEN update(base, CHOOSE m \in opt : TRUE) ELSE base
    IN  IF "PYTHONPATH" \in DOMAIN merged THEN del(merged, "PYTHONPATH") ELSE merged

\* lines 168-172: the platform_args dict
platform_args ==
    (IF is_windows THEN [k \in {"creationflags"} |-> "CREATE_NO_WINDOW"] ELSE <<>>)
    @@ (IF is_linux THEN [k \in {"preexec_fn"} |-> "set_pdeathsig"] ELSE <<>>)

\* lines 180-185 with a stdin pipe requested as well
stream_args_stdin_pipe(pipe) ==
    [k \in {"stdin", "stdout", "stderr"} |->
        IF k = "stderr" /\ ~pipe THEN "STDOUT" ELSE "PIPE"]

\* lines 180-185 with the test of pipe_stderr inverted
stream_args_swapped(pipe) ==
    [k \in {"stdout", "stderr"} |->
        IF k = "stdout" THEN "PIPE" ELSE IF pipe THEN "STDOUT" ELSE "PIPE"]

\* lines 180-185: the stdout= and stderr= keywords; stdin= is not passed
stream_args(pipe) ==
    [k \in {"stdout", "stderr"} |->
        IF k = "stdout" THEN "PIPE" ELSE IF pipe THEN "PIPE" ELSE "STDOUT"]

\* asyncio.create_subprocess_exec: a stream keyword left out defaults to None,
\* and the child then inherits the host's handle for that stream.
stream_of(kw, name) == IF name \in DOMAIN kw THEN kw[name] ELSE "INHERIT"

NoChild == [pid |-> 0, stdin |-> "", stdout |-> "", stderr |-> "", env |-> EmptyDict]

used_pids == {child[c].pid : c \in Calls} \ {0}

\* ------------------------------------------------- create_process, step by step
\* lines 168-185 up to the await: the arguments of the spawn are built and the
\* spawn is requested.
Prepare(c, opt, pipe) ==
    /\ module_loaded
    /\ running = 0
    /\ pc[c] = "idle"
    /\ additional_env' = [additional_env EXCEPT ![c] = opt]
    /\ pipe_stderr' = [pipe_stderr EXCEPT ![c] = pipe]
    /\ kwargs' = [kwargs EXCEPT ![c] = stream_args(pipe) @@ platform_args]
    /\ env' = [env EXCEPT ![c] = sanitized_env(environ, opt)]
    /\ attempts' = [attempts EXCEPT ![c] = @ + 1]
    /\ pc' = [pc EXCEPT ![c] = "awaiting"]
    /\ UNCHANGED <<platform, has_libc6, environ, running, child, result, attach_calls,
                   job, jobs_created, job_members, log, cwd>>
    /\ UNCHANGED zip_vars

\* line 183: the OS creates the child with the requested streams and environment
SpawnOk(c) ==
    /\ running = 0
    /\ pc[c] = "awaiting"
    /\ \E p \in Pids \ used_pids :
          child' = [child EXCEPT ![c] =
                       [pid |-> p,
                        stdin |-> stream_of(kwargs[c], "stdin"),
                        stdout |-> stream_of(kwargs[c], "stdout"),
                        stderr |-> stream_of(kwargs[c], "stderr"),
                        env |-> env[c]]]
    /\ pc' = [pc EXCEPT ![c] = "spawned"]
    /\ UNCHANGED <<platform, has_libc6, environ, running, additional_env, pipe_stderr,
                   kwargs, env, attempts, result, attach_calls, job, jobs_created,
                   job_members, log, cwd>>
    /\ UNCHANGED zip_vars

\* line 183 with the spawn requested again after a failure
SpawnFail_retry(c) ==
    /\ running = 0
    /\ pc[c] = "awaiting"
    /\ IF attempts[c] < 2
       THEN /\ attempts' = [attempts EXCEPT ![c] = @ + 1]
            /\ UNCHANGED <<pc, result>>
       ELSE /\ pc' = [pc EXCEPT ![c] = "raised"]
            /\ result' = [result EXCEPT ![c] = "SpawnError"]
            /\ UNCHANGED attempts
    /\ UNCHANGED <<platform, has_libc6, environ, running, additional_env, pipe_stderr,
                   kwargs, env, child, attach_calls, job, jobs_created,
                   job_members, log, cwd>>
    /\ UNCHANGED zip_vars

\* line 183: the spawn fails (program not found, creation rejected, pre-exec
\* hook raised); nothing catches the exception, so it leaves create_process.
SpawnFail(c) ==
    /\ running = 0
    /\ pc[c] = "awaiting"
    /\ pc' = [pc EXCEPT ![c] = "raised"]
    /\ result' = [result EXCEPT ![c] = "SpawnError"]
    /\ UNCHANGED <<platform, has_libc6, environ, running, additional_env, pipe_stderr,
                   kwargs, env, attempts, child, attach_calls, job, jobs_created,
                   job_members, log, cwd>>
    /\ UNCHANGED zip_vars

\* lines 183-186 with the attachment tested for the wrong platform
Resume_skip_attach(c) ==
    /\ running = 0
    /\ pc[c] = "spawned"
    /\ running' = c
    /\ pc' = [pc EXCEPT ![c] = IF is_linux THEN "attach" ELSE "return"]
    /\ UNCHANGED <<platform, has_libc6, environ, additional_env, pipe_stderr,
                   kwargs, env, attempts, child, result, attach_calls, job,
                   jobs_created, job_members, log, cwd>>
    /\ UNCHANGED zip_vars

\* lines 183-186: the await returns p and `if is_windows` is evaluated; from
\* here to the return no other coroutine runs.
Resume(c) ==
    /\ running = 0
    /\ pc[c] = "spawned"
    /\ running' = c
    /\ pc' = [pc EXCEPT ![c] = IF is_windows THEN "attach" ELSE "return"]
    /\ UNCHANGED <<platform, has_libc6, environ, additional_env, pipe_stderr,
                   kwargs, env, attempts, child, result, attach_calls, job,
                   jobs_created, job_members, log, cwd>>
    /\ UNCHANGED zip_vars

\* ------------------------------------------------ win32.attach_process_to_job
\* What can happen inside one call: everything works, creating the job object
\* fails (only when there is none yet), or assigning the process fails.
AttachOutcomes == IF job = 0 THEN {"ok", "create_failed", "assign_failed"}
                  ELSE {"ok", "assign_failed"}

\* The job object after the call: created on first use, then reused.
job_after(outcome) == IF job = 0 /\ outcome # "create_failed" THEN jobs_created + 1 ELSE job

jobs_created_after(outcome) ==
    IF job = 0 /\ outcome # "create_failed" THEN jobs_created + 1 ELSE jobs_created

job_members_after(pid, outcome) ==
    IF outcome = "ok" THEN job_members \cup {<<job_after(outcome), pid>>} ELSE job_members

\* A failure is logged, never raised.
log_after(pid, outcome) == IF outcome = "ok" THEN log ELSE log \cup {pid}

\* lines 186-189 with the call to attach_process_to_job left out
Attach_not_called(c) ==
    /\ running = c
    /\ pc[c] = "attach"
    /\ pc' = [pc EXCEPT ![c] = "return"]
    /\ UNCHANGED <<platform, has_libc6, environ, running, additional_env, pipe_stderr,
                   kwargs, env, attempts, child, result, attach_calls, job,
                   jobs_created, job_members, log, cwd>>
    /\ UNCHANGED zip_vars

\* lines 186-189 with a failed attachment leaving create_process as an exception
Attach_raise(c) ==
    /\ running = c
    /\ pc[c] = "attach"
    /\ \E outcome \in AttachOutcomes :
          /\ attach_calls' = attach_calls \cup {<<c, child[c].pid>>}
          /\ job' = job_after(outcome)
          /\ jobs_created' = jobs_created_after(outcome)
          /\ job_members' = job_members_after(child[c].pid, outcome)
          /\ log' = log_after(child[c].pid, outcome)
          /\ pc' = [pc EXCEPT ![c] = IF outcome = "ok" THEN "return" ELSE "raised"]
          /\ result' = [result EXCEPT ![c] = IF outcome = "ok" THEN @ ELSE "AttachError"]
          /\ running' = IF outcome = "ok" THEN running ELSE 0
    /\ UNCHANGED <<platform, has_libc6, environ, additional_env, pipe_stderr,
                   kwargs, env, attempts, child, cwd>>
    /\ UNCHANGED zip_vars

\* lines 186-189: win32.attach_process_to_job(p.pid); whatever its outcome the
\* coroutine goes on to the return.
Attach(c) ==
    /\ running = c
    /\ pc[c] = "attach"
    /\ \E outcome \in AttachOutcomes :
          /\ attach_calls' = attach_calls \cup {<<c, child[c].pid>>}
          /\ job' = job_after(outcome)
          /\ jobs_created' = jobs_created_after(outcome)
          /\ job_members' = job_members_after(child[c].pid, outcome)
          /\ log' = log_after(child[c].pid, outcome)
    /\ pc' = [pc EXCEPT ![c] = "return"]
    /\ UNCHANGED <<platform, has_libc6, environ, running, additional_env, pipe_stderr,
                   kwargs, env, attempts, child, result, cwd>>
    /\ UNCHANGED zip_vars

\* line 190: return p
Return(c) ==
    /\ running = c
    /\ pc[c] = "return"
    /\ pc' = [pc EXCEPT ![c] = "returned"]
    /\ result' = [result EXCEPT ![c] = "process"]
    /\ running' = 0
    /\ UNCHANGED <<platform, has_libc6, environ, additional_env, pipe_stderr,
                   kwargs, env, attempts, child, attach_calls, job, jobs_created,
                   job_members, log, cwd>>
    /\ UNCHANGED zip_vars

\* ------------------------------------------------------- LongPathZipFile
Sep == "\\"
Chars == {Sep, "/", ":", "a", "?"}
\* target paths a caller can pass: every string over Chars up to MaxLen
Paths == UNION {[1..n -> Chars] : n \in 0..MaxLen}
\* current directories of the host
Cwds == {<<"a", ":", Sep>>, <<"a", ":", Sep, "a">>}

UNCRoot == <<Sep, Sep>>
LongPrefix == <<Sep, Sep, "?", Sep>>
LongUNCPrefix == <<Sep, Sep, "?", Sep, "U", "N", "C", Sep>>

\* os.path.abspath on Windows, step 1: "/" becomes "\"
Backslashes(p) == [i \in 1..Len(p) |-> IF p[i] = "/" THEN Sep ELSE p[i]]

\* step 2: a run of separators collapses to one, a leading pair is kept
RECURSIVE CollapseFrom(_, _)
CollapseFrom(p, i) ==
    IF i > Len(p) THEN <<>>
    ELSE IF p[i] = Sep /\ i > 2 /\ p[i - 1] = Sep THEN CollapseFrom(p, i + 1)
    ELSE <<p[i]>> \o CollapseFrom(p, i + 1)

\* step 3: trailing separators go, except in a drive root and in a path of
\* separators only
RECURSIVE RStrip(_)
RStrip(p) ==
    IF Len(p) > 1 /\ p[Len(p)] = Sep
       /\ ~(Len(p) = 3 /\ p[2] = ":")
       /\ \E i \in 1..Len(p) : p[i] # Sep
    THEN RStrip(SubSeq(p, 1, Len(p) - 1))
    ELSE p

normpath(p) == RStrip(CollapseFrom(Backslashes(p), 1))

join(dir, rel) ==
    IF rel = <<>> THEN dir
    ELSE IF dir[Len(dir)] = Sep THEN dir \o rel
    ELSE dir \o <<Sep>> \o rel

\* os.path.abspath on Windows (the full path name the OS computes): UNC and
\* drive-rooted paths stay; drive-relative, rooted and relative paths are
\* completed from the current directory
abspath(p) ==
    LET n == normpath(p)
    IN  IF n = <<>> THEN cwd
        ELSE IF StartsWith(n, UNCRoot) THEN n
        ELSE IF Len(n) >= 2 /\ n[2] = ":"
             THEN IF Len(n) >= 3 /\ n[3] = Sep THEN n
                  ELSE IF n[1] = cwd[1] THEN join(cwd, Drop(n, 2))
                  ELSE <<n[1], ":", Sep>> \o Drop(n, 2)
        ELSE IF n[1] = Sep THEN SubSeq(cwd, 1, 2) \o n
        ELSE join(cwd, n)

\* lines 198-202 with the UNC branch left out
long_path_no_unc(targetpath) == LongPrefix \o abspath(targetpath)

\* lines 198-202: the rewrite of targetpath in LongPathZipFile._extract_member
long_path(targetpath) ==
    LET a == abspath(targetpath)
    IN  IF StartsWith(a, UNCRoot) THEN LongUNCPrefix \o Drop(a, 2)
        ELSE LongPrefix \o a

\* line 206 and lines 196-203: ZipFile is LongPathZipFile on Windows and
\* zipfile.ZipFile elsewhere; zip_written is the targetpath the standard
\* _extract_member receives. One entry is followed.
ExtractMember ==
    /\ module_loaded
    /\ ~zip_done
    /\ zip_written' = IF is_windows THEN long_path(zip_target) ELSE zip_target
    /\ zip_done' = TRUE
    /\ UNCHANGED <<platform, has_libc6, environ, cwd, zip_target>>
    /\ UNCHANGED launch_vars

\* ------------------------------------------------------------ specifications
\* the host of the example scenario: PYTHONPATH=/host/libs
ExampleEnviron == [k \in {"PYTHONPATH"} |-> "/host/libs"]

InitLaunch ==
    /\ pc = [c \in Calls |-> "idle"]
    /\ running = 0
    /\ additional_env = [c \in Calls |-> {}]
    /\ pipe_stderr = [c \in Calls |-> FALSE]
    /\ kwargs = [c \in Calls |-> <<>>]
    /\ env = [c \in Calls |-> EmptyDict]
    /\ attempts = [c \in Calls |-> 0]
    /\ child = [c \in Calls |-> NoChild]
    /\ result = [c \in Calls |-> "pending"]
    /\ attach_calls = {}
    /\ job = 0
    /\ jobs_created = 0
    /\ job_members = {}
    /\ log = {}

InitZip ==
    /\ zip_target = <<>>
    /\ zip_written = <<>>
    /\ zip_done = FALSE

InitHost ==
    /\ platform \in Platforms
    /\ has_libc6 \in BOOLEAN

\* Concurrent launches: every call is made with the arguments' defaults.
Init ==
    /\ InitHost
    /\ environ = ExampleEnviron
    /\ cwd \in {<<"a", ":", Sep>>}
    /\ InitLaunch
    /\ InitZip

Next ==
    \E c \in Calls :
        \/ \E pipe \in BOOLEAN : Prepare(c, {}, pipe)
        \/ SpawnOk(c)
        \/ SpawnFail(c)
        \/ Resume(c)
        \/ Attach(c)
        \/ Return(c)

Spec == Init /\ [][Next]_vars

\* One launch, over every host environment and every argument value.
InitArgs ==
    /\ InitHost
    /\ environ \in Dicts
    /\ cwd \in {<<"a", ":", Sep>>}
    /\ InitLaunch
    /\ InitZip

NextArgs ==
    \/ \E opt \in OptDicts, pipe \in BOOLEAN : Prepare(1, opt, pipe)
    \/ SpawnOk(1)
    \/ SpawnFail(1)
    \/ Resume(1)
    \/ Attach(1)
    \/ Return(1)

SpecArgs == InitArgs /\ [][NextArgs]_vars

\* Extraction of one entry, over every target path and current directory.
InitExtract ==
    /\ InitHost
    /\ environ = ExampleEnviron
    /\ cwd \in Cwds
    /\ InitLaunch
    /\ zip_target \in Paths
    /\ zip_written = <<>>
    /\ zip_done = FALSE

NextExtract == ExtractMember

SpecExtract == InitExtract /\ [][NextExtract]_vars

\* ------------------------------------------------------------------ claims
spawned(c) == child[c].pid # 0
handed_back(c) == pc[c] = "returned" /\ result[c] = "process"

\* C1: the environment create_process gives to the spawn, and the one the child
\* gets, never holds the key PYTHONPATH, whether the host, the overrides or
\* both set it.
C1_NoPythonPath ==
    \A c \in Calls :
        /\ "PYTHONPATH" \notin DOMAIN env[c]
        /\ "PYTHONPATH" \notin DOMAIN child[c].env

C1_Witness ==
    /\ spawned(1)
    /\ "PYTHONPATH" \in DOMAIN environ
    /\ \E m \in additional_env[1] : "PYTHONPATH" \in DOMAIN m
    /\ "MODE" \in DOMAIN child[1].env

\* C2 as stated: for every key k of the overrides that the host environment
\* also sets, the sanitized environment maps k to the override's value.
C2_OverridesWinEveryKey ==
    \A c \in Calls : pc[c] # "idle" =>
        \A m \in additional_env[c] :
            \A k \in DOMAIN m \cap DOMAIN environ :
                k \in DOMAIN env[c] /\ env[c][k] = m[k]

\* C2 amended: for every key k other than PYTHONPATH of the overrides that the
\* host environment also sets, the sanitized environment maps k to the
\* override's value.
C2_OverridesWin ==
    \A c \in Calls : pc[c] # "idle" =>
        \A m \in additional_env[c] :
            \A k \in (DOMAIN m \cap DOMAIN environ) \ {"PYTHONPATH"} :
                k \in DOMAIN env[c] /\ env[c][k] = m[k]

C2_Witness ==
    /\ spawned(1)
    /\ \E m \in additional_env[1] :
          /\ "MODE" \in DOMAIN m \cap DOMAIN environ
          /\ m["MODE"] # environ["MODE"]
          /\ child[1].env["MODE"] = m["MODE"]

\* C3: a call whose spawn failed has asked for exactly one spawn, has handed
\* the failure to its caller, has no process and has attached nothing; no call
\* ever asks for a second spawn.
C3_SpawnFailureOnce ==
    \A c \in Calls :
        /\ attempts[c] <= 1
        /\ pc[c] = "raised" =>
              /\ attempts[c] = 1
              /\ result[c] = "SpawnError"
              /\ ~spawned(c)
              /\ \A a \in attach_calls : a[1] # c

C3_Witness ==
    /\ is_windows
    /\ pc[1] = "raised"
    /\ handed_back(2)

\* C4: on Windows a call that has reached its return, or has returned a process,
\* has called attach_process_to_job with that child's pid, and every such call
\* was made for a child already spawned.
C4_AttachBeforeReturn ==
    is_windows =>
        /\ \A c \in Calls :
              (pc[c] \in {"return", "returned"} \/ result[c] = "process")
                  => <<c, child[c].pid>> \in attach_calls
        /\ \A a \in attach_calls : spawned(a[1]) /\ child[a[1]].pid = a[2]

C4_Witness ==
    /\ is_windows
    /\ \A c \in Calls : handed_back(c)

C7_StreamWiring ==
    \A c \in Calls : spawned(c) =>
        /\ child[c].stdout = "PIPE"
        /\ (child[c].stderr = "PIPE") <=> pipe_stderr[c]
        /\ ~pipe_stderr[c] => child[c].stderr = "STDOUT"

C7_Witness ==
    /\ spawned(1)
    /\ pipe_stderr[1]
    /\ child[1].stderr = "PIPE"

\* C8 as stated: the child's standard input is neither inherited from the host
\* nor supplied by it.
C8_StdinNotConnected ==
    \A c \in Calls : spawned(c) => child[c].stdin \notin {"INHERIT", "PIPE"}

\* C8 amended: create_process passes no stdin to the spawn, so the host
\* supplies no input pipe and the child's standard input is whatever the host's
\* own standard input is (inherited).
C8_StdinInherited ==
    \A c \in Calls :
        /\ "stdin" \notin DOMAIN kwargs[c]
        /\ spawned(c) => child[c].stdin = "INHERIT"

C8_Witness ==
    /\ spawned(1)
    /\ pc[1] = "returned"
    /\ child[1].stdin = "INHERIT"

\* C9 as stated: the platform options of a launch are exactly the no-window
\* creation flag on Windows, exactly the pre-exec hook set_pdeathsig on Linux
\* (the platform with the parent-death facility), and none on any other
\* platform; flag and hook never come together.
C9_PolicyByPlatform ==
    \A c \in Calls : pc[c] # "idle" =>
        LET opts == DOMAIN kwargs[c] \cap {"creationflags", "preexec_fn"}
        IN  /\ opts # {"creationflags", "preexec_fn"}
            /\ is_windows =>
                  opts = {"creationflags"} /\ kwargs[c]["creationflags"] = "CREATE_NO_WINDOW"
            /\ platform = Linux =>
                  opts = {"preexec_fn"} /\ kwargs[c]["preexec_fn"] = "set_pdeathsig"
            /\ (~is_windows /\ platform # Linux) => opts = {}

\* C10: on Windows the path handed to the standard extraction is the absolute
\* target with \\?\UNC\ in place of a leading \\ and with \\?\ in front of
\* anything else, and taking the prefix off again gives the absolute target;
\* on every other platform the target is handed on as it was.
strip_long_prefix(w) ==
    IF StartsWith(w, LongUNCPrefix) THEN UNCRoot \o Drop(w, Len(LongUNCPrefix))
    ELSE IF StartsWith(w, LongPrefix) THEN Drop(w, Len(LongPrefix))
    ELSE w

C10_LongPathRewrite ==
    zip_done =>
        IF is_windows
        THEN LET a == abspath(zip_target)
             IN  /\ StartsWith(zip_written, LongPrefix)
                 /\ StartsWith(a, UNCRoot) =>
                       /\ StartsWith(zip_written, LongUNCPrefix)
                       /\ Drop(zip_written, Len(LongUNCPrefix)) = Drop(a, 2)
                 /\ ~StartsWith(a, UNCRoot) =>
                       Drop(zip_written, Len(LongPrefix)) = a
                 /\ strip_long_prefix(zip_written) = a
        ELSE zip_written = zip_target

C10_Witness ==
    /\ zip_done
    /\ is_windows
    /\ StartsWith(zip_target, UNCRoot)
    /\ Len(zip_target) >= 3
    /\ zip_target[3] = "a"
    /\ StartsWith(zip_written, LongUNCPrefix)

====
